---- MODULE Spec2Model ----
(***************************************************************************)
(* Model of the Space Invaders simulation engine (src/src/main.rs):        *)
(* struct GameState and its methods new, spawn_enemies, reset, tick,       *)
(* shoot, move_player_left, move_player_right, and the part of main's      *)
(* event loop that calls them (key handling, resize, tick deadline with    *)
(* the post-tick speed-up and victory rules).                              *)
(***************************************************************************)
EXTENDS Integers, Sequences, FiniteSets, TLC

VARIABLES
    gs,               \* the GameState value owned by main (`let mut gs`)
    cfg,              \* the GameConfig the session was built from
    panicked,         \* the process has aborted on an arithmetic panic
    resizes,          \* history: the number of resize events so far
    last,             \* history: the operation performed by the last step
    wasTerminal       \* history: game_over \/ victory held before the last step

vars == <<gs, cfg, panicked, resizes, last, wasTerminal>>

----------------------------------------------------------------------------
(* Bounds of the model *)

\* tick() is not explored beyond this value of tick_count
MaxTicks == 3

\* at most this many resize events are explored in one run
MaxResizes == 1

\* (width, height) pairs a terminal reports, at start-up and on resize
Sizes == { <<6, 8>>, <<3, 1>> }

\* configurations handed to GameState::new / reset
Configs ==
    { [initial_enemy_rows |-> 1, initial_enemy_cols |-> 1,
       enemy_move_every_ticks |-> 1, enemy_speedup_every_kills |-> 1],
      [initial_enemy_rows |-> 1, initial_enemy_cols |-> 2,
       enemy_move_every_ticks |-> 2, enemy_speedup_every_kills |-> 2],
      [initial_enemy_rows |-> 2, initial_enemy_cols |-> 1,
       enemy_move_every_ticks |-> 0, enemy_speedup_every_kills |-> 2] }

----------------------------------------------------------------------------
(* u16 arithmetic *)

U16 == 65536

\* a - b on u16 with overflow checks off (two's complement wrap)
WrappingSub(a, b) == (a - b + U16) % U16

\* u16::saturating_sub
SaturatingSub(a, b) == IF a >= b THEN a - b ELSE 0

Min(a, b) == IF a <= b THEN a ELSE b
Max(a, b) == IF a >= b THEN a ELSE b

Pos(x, y) == [x |-> x, y |-> y]

Range(s) == { s[i] : i \in 1..Len(s) }

----------------------------------------------------------------------------
(* GameState::spawn_enemies *)

LeftMargin == 2
RightMargin == 2
MaxSpawnRows == 6
MaxSpawnCols == 12
MaxBullets == 3

SpacingX(width, cols) ==
    Max(SaturatingSub(width, LeftMargin + RightMargin) \div (cols + 1), 1)

SpawnX(width, cols, col) == LeftMargin + SpacingX(width, cols) * (col + 1)
SpawnY(row) == 2 + row * 2

\* the push guard `x < self.width - 1 && y < self.height - 2` (as it evaluates
\* when an underflow wraps; SpawnPanics is the case in which it may abort)
SpawnKeeps(width, height, x, y) ==
    x < WrappingSub(width, 1) /\ y < WrappingSub(height, 2)

\* row-major list of the grid cells (row, col) visited by the nested loops
SpawnCells(rows, cols) ==
    [k \in 1..(rows * cols) |-> [row |-> (k - 1) \div cols, col |-> (k - 1) % cols]]

SpawnKept(width, height, cols, c) ==
    SpawnKeeps(width, height, SpawnX(width, cols, c.col), SpawnY(c.row))

SpawnList(width, height, rows, cols) ==
    LET cells == SpawnCells(rows, cols)
        kept  == SelectSeq(cells, LAMBDA c : SpawnKept(width, height, cols, c))
    IN  [i \in 1..Len(kept) |-> Pos(SpawnX(width, cols, kept[i].col), SpawnY(kept[i].row))]

\* spawn_enemies evaluates `self.width - 1` whenever the loop body runs, and
\* `self.height - 2` whenever the first conjunct is true for some cell
SpawnPanics(width, height, rows, cols) ==
    /\ rows > 0 /\ cols > 0
    /\ \/ width < 1
       \/ /\ height < 2
          /\ \E col \in 0..(cols - 1) : SpawnX(width, cols, col) < WrappingSub(width, 1)

spawn_enemies(s) ==
    [s EXCEPT !.enemies = SpawnList(s.width, s.height, s.spawn_rows, s.spawn_cols)]

----------------------------------------------------------------------------
(* GameState::new and GameState::reset *)

new(width, height, c) ==
    spawn_enemies(
        [width |-> width,
         height |-> height,
         player |-> Pos(width \div 2, WrappingSub(height, 3)),
         bullets |-> << >>,
         enemies |-> << >>,
         score |-> 0,
         kills |-> 0,
         tick_count |-> 0,
         enemy_tick_acc |-> 0,
         enemy_move_every_ticks |-> c.enemy_move_every_ticks,
         enemy_direction |-> 1,
         game_over |-> FALSE,
         victory |-> FALSE,
         spawn_rows |-> c.initial_enemy_rows,
         spawn_cols |-> c.initial_enemy_cols,
         level |-> 1])

\* `height - 3` underflows, or the spawn does
NewPanics(width, height, c) ==
    \/ height < 3
    \/ SpawnPanics(width, height, c.initial_enemy_rows, c.initial_enemy_cols)

\* mutant: the formation direction survives the restart
reset_keeps_direction(s, c) ==
    spawn_enemies(
        [s EXCEPT !.player = Pos(s.width \div 2, WrappingSub(s.height, 3)),
                  !.bullets = << >>,
                  !.enemies = << >>,
                  !.score = 0,
                  !.kills = 0,
                  !.tick_count = 0,
                  !.enemy_tick_acc = 0,
                  !.enemy_move_every_ticks = c.enemy_move_every_ticks,
                  !.game_over = FALSE,
                  !.victory = FALSE,
                  !.spawn_rows = c.initial_enemy_rows,
                  !.spawn_cols = c.initial_enemy_cols,
                  !.level = 1])

reset(s, c) ==
    spawn_enemies(
        [s EXCEPT !.player = Pos(s.width \div 2, WrappingSub(s.height, 3)),
                  !.bullets = << >>,
                  !.enemies = << >>,
                  !.score = 0,
                  !.kills = 0,
                  !.tick_count = 0,
                  !.enemy_tick_acc = 0,
                  !.enemy_move_every_ticks = c.enemy_move_every_ticks,
                  !.enemy_direction = 1,
                  !.game_over = FALSE,
                  !.victory = FALSE,
                  !.spawn_rows = c.initial_enemy_rows,
                  !.spawn_cols = c.initial_enemy_cols,
                  !.level = 1])

ResetPanics(s, c) == NewPanics(s.width, s.height, c)

Terminal(s) == s.game_over \/ s.victory

----------------------------------------------------------------------------
(* GameState::shoot, move_player_left, move_player_right *)

\* mutant: the cap test admits a fourth bullet
shoot_cap_off_by_one(s) ==
    IF Len(s.bullets) <= MaxBullets
    THEN [s EXCEPT !.bullets = Append(@, Pos(s.player.x, SaturatingSub(s.player.y, 1)))]
    ELSE s

\* mutant: the bullet starts on the player's own row
shoot_from_player_row(s) ==
    IF Len(s.bullets) < MaxBullets
    THEN [s EXCEPT !.bullets = Append(@, Pos(s.player.x, s.player.y))]
    ELSE s

shoot(s) ==
    IF Len(s.bullets) < MaxBullets
    THEN [s EXCEPT !.bullets = Append(@, Pos(s.player.x, SaturatingSub(s.player.y, 1)))]
    ELSE s

move_player_left(s) ==
    IF s.player.x > 1 THEN [s EXCEPT !.player.x = @ - 1] ELSE s

move_player_right(s) ==
    IF s.player.x < SaturatingSub(s.width, 2) THEN [s EXCEPT !.player.x = @ + 1] ELSE s

----------------------------------------------------------------------------
(* GameState::tick *)

\* tick_count += 1; enemy_tick_acc += 1
advance_counters(s) ==
    [s EXCEPT !.tick_count = @ + 1, !.enemy_tick_acc = @ + 1]

\* mutant: bullets arriving on row 0 stay in the sequence
move_bullets_keep_top(bs) ==
    [i \in 1..Len(bs) |-> IF bs[i].y > 0 THEN [bs[i] EXCEPT !.y = @ - 1] ELSE bs[i]]

\* every bullet with y > 0 moves up one row; bullets at row 0 are dropped
move_bullets(bs) ==
    LET moved == [i \in 1..Len(bs) |-> IF bs[i].y > 0 THEN [bs[i] EXCEPT !.y = @ - 1] ELSE bs[i]]
    IN  SelectSeq(moved, LAMBDA b : b.y > 0)

\* mutant: a bullet matches the first enemy of its column, whatever the row
position_column_only(es, b) ==
    IF \E i \in 1..Len(es) : es[i].x = b.x
    THEN CHOOSE i \in 1..Len(es) : es[i].x = b.x /\ \A j \in 1..(i - 1) : es[j].x # b.x
    ELSE 0

\* enemies.iter().position(|e| e.x == b.x && e.y == b.y): the first index, 0 for None
position(es, b) ==
    IF \E i \in 1..Len(es) : es[i] = b
    THEN CHOOSE i \in 1..Len(es) : es[i] = b /\ \A j \in 1..(i - 1) : es[j] # b
    ELSE 0

\* to_remove as pushed by the bullet loop: one index per bullet that matched
to_remove(bs, es) ==
    LET idx == [i \in 1..Len(bs) |-> position(es, bs[i])]
    IN  SelectSeq(idx, LAMBDA i : i # 0)

RemoveAt(es, i) == [k \in 1..(Len(es) - 1) |-> IF k < i THEN es[k] ELSE es[k + 1]]

\* sort_unstable + dedup + removal in reverse order: the largest index first
RECURSIVE remove_all(_, _)
remove_all(es, idxs) ==
    IF idxs = {} THEN es
    ELSE LET m == CHOOSE i \in idxs : \A j \in idxs : j <= i
         IN  remove_all(IF m <= Len(es) THEN RemoveAt(es, m) ELSE es, idxs \ {m})

\* score and kills grow once per push onto to_remove
resolve_collisions(s) ==
    LET hits == to_remove(s.bullets, s.enemies)
    IN  [s EXCEPT !.score = @ + 10 * Len(hits),
                  !.kills = @ + Len(hits),
                  !.enemies = remove_all(@, Range(hits))]

\* mutant: the row count grows without its cap
grow_formation_uncapped(s) ==
    IF s.level % 2 = 0
    THEN [s EXCEPT !.spawn_rows = @ + 1]
    ELSE [s EXCEPT !.spawn_cols = Min(@ + 1, MaxSpawnCols)]

grow_formation(s) ==
    IF s.level % 2 = 0
    THEN [s EXCEPT !.spawn_rows = Min(@ + 1, MaxSpawnRows)]
    ELSE [s EXCEPT !.spawn_cols = Min(@ + 1, MaxSpawnCols)]

shrink_cadence(n) == Max(SaturatingSub(n, 1), 1)

\* the wave-clear branch up to, not including, the call of spawn_enemies
level_up(s) ==
    LET g == grow_formation([s EXCEPT !.level = @ + 1])
    IN  [g EXCEPT !.enemy_move_every_ticks = shrink_cadence(@)]

\* mutant: the wave-clear branch does not respawn the formation
wave_clear_no_respawn(s) ==
    IF s.enemies = << >> THEN level_up(s) ELSE s

wave_clear(s) ==
    IF s.enemies = << >> THEN spawn_enemies(level_up(s)) ELSE s

WaveClearPanics(s) ==
    /\ s.enemies = << >>
    /\ SpawnPanics(s.width, s.height, level_up(s).spawn_rows, level_up(s).spawn_cols)

\* mutant: the side test is one column too lenient on both sides
hit_side_lenient(s) ==
    \E i \in 1..Len(s.enemies) :
        \/ s.enemies[i].x + s.enemy_direction <= 0
        \/ s.enemies[i].x + s.enemy_direction >= s.width - 1

hit_side(s) ==
    \E i \in 1..Len(s.enemies) :
        \/ s.enemies[i].x + s.enemy_direction <= 1
        \/ s.enemies[i].x + s.enemy_direction >= s.width - 2

\* (v as i16 + shift) as u16
AsU16(v) == (v + U16) % U16

\* mutant: the descent also shifts the formation sideways
formation_step_diagonal(s) ==
    IF hit_side(s)
    THEN [s EXCEPT !.enemies = [i \in 1..Len(@) |->
                                   [@[i] EXCEPT !.y = @ + 1, !.x = AsU16(@ + s.enemy_direction)]],
                   !.enemy_direction = -@]
    ELSE [s EXCEPT !.enemies =
             [i \in 1..Len(@) |-> [@[i] EXCEPT !.x = AsU16(@ + s.enemy_direction)]]]

\* mutant: at the side the formation turns round without descending
formation_step_no_descent(s) ==
    IF hit_side(s)
    THEN [s EXCEPT !.enemy_direction = -@]
    ELSE [s EXCEPT !.enemies =
             [i \in 1..Len(@) |-> [@[i] EXCEPT !.x = AsU16(@ + s.enemy_direction)]]]

formation_step(s) ==
    IF hit_side(s)
    THEN [s EXCEPT !.enemies = [i \in 1..Len(@) |-> [@[i] EXCEPT !.y = @ + 1]],
                   !.enemy_direction = -@]
    ELSE [s EXCEPT !.enemies =
             [i \in 1..Len(@) |-> [@[i] EXCEPT !.x = AsU16(@ + s.enemy_direction)]]]

move_enemies(s) ==
    IF s.enemy_tick_acc >= s.enemy_move_every_ticks
    THEN formation_step([s EXCEPT !.enemy_tick_acc = 0])
    ELSE s

\* mutant: an enemy on the player's own row does not count
reached_bottom_strict(s) == \E i \in 1..Len(s.enemies) : s.enemies[i].y > s.player.y

\* mutant: `all` for `any`, which is true of an empty formation
reached_bottom_all(s) == \A i \in 1..Len(s.enemies) : s.enemies[i].y >= s.player.y

reached_bottom(s) == \E i \in 1..Len(s.enemies) : s.enemies[i].y >= s.player.y

loss_check(s) ==
    IF reached_bottom(s) THEN [s EXCEPT !.game_over = TRUE] ELSE s

\* the session after bullet movement and collision resolution
after_collisions(s) ==
    resolve_collisions([advance_counters(s) EXCEPT !.bullets = move_bullets(@)])

\* the session just before the formation-movement step
before_move(s) == wave_clear(after_collisions(s))

\* mutant: the early return tests game_over only
tick_ignores_victory(s) ==
    IF s.game_over
    THEN s
    ELSE loss_check(move_enemies(before_move(s)))

tick(s) ==
    IF s.game_over \/ s.victory
    THEN s
    ELSE loss_check(move_enemies(before_move(s)))

TickPanics(s) == ~(s.game_over \/ s.victory) /\ WaveClearPanics(after_collisions(s))

----------------------------------------------------------------------------
(* main: the event loop *)

\* Event::Resize(w, h)
resize(s, w, h) ==
    [s EXCEPT !.width = w, !.height = h, !.player.y = SaturatingSub(h, 3)]

\* the speed-up rule applied after every tick
post_tick_speedup(s, c) ==
    IF s.kills > 0 /\ s.kills % c.enemy_speedup_every_kills = 0
    THEN [s EXCEPT !.enemy_move_every_ticks = shrink_cadence(@)]
    ELSE s

\* the victory rule applied after every tick
post_tick_victory(s) ==
    IF s.enemies = << >> THEN [s EXCEPT !.victory = TRUE] ELSE s

\* `if last_tick.elapsed() >= tick_rate { ... }`
tick_deadline(s, c) == post_tick_victory(post_tick_speedup(tick(s), c))

key_restart(s, c) == IF s.game_over \/ s.victory THEN reset(s, c) ELSE s

key_shoot(s) == IF ~s.game_over /\ ~s.victory THEN shoot(s) ELSE s

----------------------------------------------------------------------------
(* Steps common to both specifications *)

\* a step of operation op that takes the session to state t
Step(op, t) ==
    /\ ~panicked
    /\ gs' = t
    /\ last' = op
    /\ wasTerminal' = Terminal(gs)
    /\ UNCHANGED <<cfg, panicked, resizes>>

\* a step of operation op that takes the session to t; when the operation
\* underflows a u16 subtraction the build decides: with overflow checks the
\* process aborts, without them the subtraction has wrapped and t is the result
StepOrPanic(op, underflows, t) ==
    /\ ~panicked
    /\ last' = op
    /\ wasTerminal' = Terminal(gs)
    /\ UNCHANGED <<cfg, resizes>>
    /\ \/ panicked' = FALSE /\ gs' = t
       \/ underflows /\ panicked' = TRUE /\ gs' = gs

\* tick() is explored while tick_count is below the bound (a frozen tick
\* does not count)
TickAllowed == Terminal(gs) \/ gs.tick_count < MaxTicks

\* main: GameState::new(size.width, size.height, &cfg)
Init ==
    /\ cfg \in Configs
    /\ \E size \in Sizes :
          /\ gs = new(size[1], size[2], cfg)
          /\ panicked \in {FALSE, NewPanics(size[1], size[2], cfg)}
    /\ resizes = 0
    /\ last = "new"
    /\ wasTerminal = FALSE

----------------------------------------------------------------------------
(* Spec: the engine's operations, called in any order *)

Shoot == Step("shoot", shoot(gs))

MoveLeft == Step("move_player_left", move_player_left(gs))

MoveRight == Step("move_player_right", move_player_right(gs))

Reset == StepOrPanic("reset", ResetPanics(gs, cfg), reset(gs, cfg))

Tick == TickAllowed /\ StepOrPanic("tick", TickPanics(gs), tick(gs))

Next == Shoot \/ MoveLeft \/ MoveRight \/ Reset \/ Tick

Spec == Init /\ [][Next]_vars

----------------------------------------------------------------------------
(* DriverSpec: the operations as main's event loop calls them *)

KeyLeft == Step("key_left", move_player_left(gs))

KeyRight == Step("key_right", move_player_right(gs))

KeyRestart ==
    StepOrPanic("key_restart", Terminal(gs) /\ ResetPanics(gs, cfg), key_restart(gs, cfg))

KeyShoot == Step("key_shoot", key_shoot(gs))

\* a resize event delivering size: main assigns the fields directly
ResizeStep(op, size) ==
    /\ ~panicked
    /\ resizes < MaxResizes
    /\ resizes' = resizes + 1
    /\ gs' = resize(gs, size[1], size[2])
    /\ last' = op
    /\ wasTerminal' = Terminal(gs)
    /\ UNCHANGED <<cfg, panicked>>

EventResize == \E size \in Sizes : ResizeStep("event_resize", size)

TickDeadline ==
    TickAllowed /\ StepOrPanic("tick_deadline", TickPanics(gs), tick_deadline(gs, cfg))

DriverNext ==
    KeyLeft \/ KeyRight \/ KeyRestart \/ KeyShoot \/ EventResize \/ TickDeadline

DriverSpec == Init /\ [][DriverNext]_vars

----------------------------------------------------------------------------
(* ScenarioSpec: a 40 x 20 session with a 1 x 1 formation and a slow       *)
(* formation; the player fires once and the session is ticked              *)

\* tick() is explored up to this value of tick_count in the scenario
MaxScenarioTicks == 15

ScenarioConfigs ==
    { [initial_enemy_rows |-> 1, initial_enemy_cols |-> 1,
       enemy_move_every_ticks |-> m, enemy_speedup_every_kills |-> 5] : m \in 16..22 }

ScenarioInit ==
    /\ cfg \in ScenarioConfigs
    /\ gs = new(40, 20, cfg)
    /\ panicked = FALSE
    /\ resizes = 0
    /\ last = "new"
    /\ wasTerminal = FALSE

ScenarioShoot == last = "new" /\ Step("shoot", shoot(gs))

ScenarioTick ==
    /\ last \in {"shoot", "tick"}
    /\ gs.tick_count < MaxScenarioTicks
    /\ StepOrPanic("tick", TickPanics(gs), tick(gs))

ScenarioNext == ScenarioShoot \/ ScenarioTick

ScenarioSpec == ScenarioInit /\ [][ScenarioNext]_vars

----------------------------------------------------------------------------
(* Level progression: formations at and below the caps, on a screen whose
   spawn is empty (every tick clears the wave) and on one whose spawn is not *)

MaxLevelTicks == 4

LevelSizes == { <<3, 8>>, <<6, 8>> }

LevelConfigs ==
    { [initial_enemy_rows |-> r, initial_enemy_cols |-> c,
       enemy_move_every_ticks |-> m, enemy_speedup_every_kills |-> 5] :
         r \in {1, 5, 6}, c \in {1, 11, 12}, m \in {1, 2} }

LevelInit ==
    /\ cfg \in LevelConfigs
    /\ \E size \in LevelSizes : gs = new(size[1], size[2], cfg)
    /\ panicked = FALSE
    /\ resizes = 0
    /\ last = "new"
    /\ wasTerminal = FALSE

LevelShoot == Step("shoot", shoot(gs))

\* no subtraction underflows on a screen of height 8
LevelTick ==
    /\ Terminal(gs) \/ gs.tick_count < MaxLevelTicks
    /\ Step("tick", tick(gs))

LevelReset == Step("reset", reset(gs, cfg))

LevelNext == LevelShoot \/ LevelTick \/ LevelReset

LevelSpec == LevelInit /\ [][LevelNext]_vars

----------------------------------------------------------------------------
(* A session in which the player never shoots and the screen is never
   resized, with tick() invoked again and again *)

MaxLiveTicks == 40

LiveSizes == { <<6, 8>>, <<7, 9>> }

LiveConfigs ==
    { [initial_enemy_rows |-> r, initial_enemy_cols |-> c,
       enemy_move_every_ticks |-> m, enemy_speedup_every_kills |-> 5] :
         r \in {1, 2}, c \in {1, 2}, m \in {1, 2, 3} }

LiveInit ==
    /\ cfg \in LiveConfigs
    /\ \E size \in LiveSizes : gs = new(size[1], size[2], cfg)
    /\ gs.enemies # << >>
    /\ panicked = FALSE
    /\ resizes = 0
    /\ last = "new"
    /\ wasTerminal = FALSE

\* no subtraction underflows on these screens
LiveTick ==
    /\ Terminal(gs) \/ gs.tick_count < MaxLiveTicks
    /\ Step("tick", tick(gs))

LiveMoveLeft == Step("move_player_left", move_player_left(gs))

LiveMoveRight == Step("move_player_right", move_player_right(gs))

LiveNext == LiveTick \/ LiveMoveLeft \/ LiveMoveRight

\* the tick deadline of the event loop keeps expiring
LiveSpec == LiveInit /\ [][LiveNext]_vars /\ WF_vars(LiveTick)

----------------------------------------------------------------------------
(* Spawning on screens of odd and even height, main's own configuration
   included *)

SpawnSizes == { <<6, 7>>, <<6, 8>>, <<40, 9>>, <<40, 20>> }

SpawnConfigs ==
    { [initial_enemy_rows |-> 3, initial_enemy_cols |-> 6,
       enemy_move_every_ticks |-> 6, enemy_speedup_every_kills |-> 5],
      [initial_enemy_rows |-> 2, initial_enemy_cols |-> 1,
       enemy_move_every_ticks |-> 2, enemy_speedup_every_kills |-> 5],
      [initial_enemy_rows |-> 6, initial_enemy_cols |-> 2,
       enemy_move_every_ticks |-> 1, enemy_speedup_every_kills |-> 5] }

SpawnInit ==
    /\ cfg \in SpawnConfigs
    /\ \E size \in SpawnSizes : gs = new(size[1], size[2], cfg)
    /\ panicked = FALSE
    /\ resizes = 0
    /\ last = "new"
    /\ wasTerminal = FALSE

SpawnShoot == Step("shoot", shoot(gs))

\* no subtraction underflows on these screens
SpawnTick == TickAllowed /\ Step("tick", tick(gs))

SpawnReset == Step("reset", reset(gs, cfg))

SpawnNext == SpawnShoot \/ SpawnTick \/ SpawnReset

SpawnSpec == SpawnInit /\ [][SpawnNext]_vars

----------------------------------------------------------------------------
(* C1 *)

\* C1: in every state the event loop can reach with game_over or victory set,
\* tick() returns the session unchanged in every field (so any number of
\* calls does), until a reset clears the flags.
C1_FrozenTick ==
    ~panicked /\ (gs.game_over \/ gs.victory) => tick(gs) = gs

\* the tick deadline has fired on a session that was already won
C1_Witness ==
    ~panicked /\ last = "tick_deadline" /\ wasTerminal /\ gs.victory

----------------------------------------------------------------------------
(* C2 *)

\* C2: under any interleaving of shoot, move_player_left, move_player_right,
\* tick and reset there are never more than 3 live bullets, and shoot() on a
\* session with 3 live bullets leaves it unchanged.
C2_BulletCap ==
    ~panicked => /\ Len(gs.bullets) <= 3
                 /\ (Len(gs.bullets) = 3 => shoot(gs) = gs)

\* shoot has just filled the third slot
C2_Witness ==
    ~panicked /\ last = "shoot" /\ Len(gs.bullets) = 3

----------------------------------------------------------------------------
(* C3 *)

\* the enemies of s that share a cell with a bullet once the bullets have moved
MatchedEnemies(s) ==
    { i \in 1..Len(s.enemies) :
        \E j \in 1..Len(s.bullets) :
            /\ s.bullets[j].y > 1
            /\ s.bullets[j].x = s.enemies[i].x
            /\ s.bullets[j].y - 1 = s.enemies[i].y }

\* C3: a tick adds exactly 10 to score and 1 to kills for each distinct enemy
\* matched in its collision pass, also when several bullets share the cell of
\* one enemy.
C3_ScorePerUniqueEnemy ==
    [][(last' = "tick" /\ ~Terminal(gs) /\ ~panicked')
         => /\ gs'.score = gs.score + 10 * Cardinality(MatchedEnemies(gs))
            /\ gs'.kills = gs.kills + Cardinality(MatchedEnemies(gs))]_vars

----------------------------------------------------------------------------
(* C4 *)

\* C4: after a tick() on a non-terminal session game_over holds exactly when
\* some enemy's row is at or beyond the player's row in the resulting state,
\* and no other operation turns game_over on.
C4_LossCheck ==
    [][~panicked' =>
         IF last' = "tick" /\ ~Terminal(gs)
         THEN gs'.game_over <=> (\E e \in Range(gs'.enemies) : e.y >= gs'.player.y)
         ELSE gs'.game_over => gs.game_over]_vars

\* a tick on a live session has just detected the loss
C4_Witness ==
    ~panicked /\ last = "tick" /\ ~wasTerminal /\ gs.game_over

----------------------------------------------------------------------------
(* C5 *)

\* C5: in every state reached by new, move_player_left, move_player_right,
\* reset and resize events the player column lies in [1, width-2].
C5_PlayerInBounds ==
    ~panicked => 1 <= gs.player.x /\ gs.player.x <= gs.width - 2

----------------------------------------------------------------------------
(* C6 *)

Columns(es) == [i \in 1..Len(es) |-> es[i].x]
Rows(es) == [i \in 1..Len(es) |-> es[i].y]

\* C6: in a tick whose formation step shifts the formation sideways, every
\* enemy ends in a column c with 1 <= c < width-1; and when some enemy's
\* column plus the direction is <= 1 or >= width-2 the formation step is a
\* descent (every row grows by one) and no column changes.
C6_LateralShiftInBounds ==
    [][(last' = "tick" /\ ~Terminal(gs) /\ ~panicked') =>
         LET mid     == before_move(gs)
             stepped == mid.enemy_tick_acc >= mid.enemy_move_every_ticks
             blocked == \E e \in Range(mid.enemies) :
                           \/ e.x + mid.enemy_direction <= 1
                           \/ e.x + mid.enemy_direction >= gs.width - 2
             shifted == Columns(gs'.enemies) # Columns(mid.enemies)
         IN  /\ shifted => \A e \in Range(gs'.enemies) : 1 <= e.x /\ e.x < gs.width - 1
             /\ blocked => ~shifted
             /\ (blocked /\ stepped) =>
                   Rows(gs'.enemies) = [i \in 1..Len(mid.enemies) |-> mid.enemies[i].y + 1]
             /\ (~blocked /\ stepped) =>
                   Columns(gs'.enemies) =
                      [i \in 1..Len(mid.enemies) |-> mid.enemies[i].x + mid.enemy_direction]
    ]_vars

\* a tick has shifted the formation to the left of its spawn columns
C6_Witness ==
    /\ ~panicked /\ last = "tick" /\ ~wasTerminal
    /\ \E e \in Range(gs.enemies) : e.x < SpawnX(gs.width, gs.spawn_cols, 0)

----------------------------------------------------------------------------
(* C7 *)

\* C7: reset(cfg) on a session with game_over set yields, field for field, the
\* session GameState::new builds for the same width, height and cfg (so
\* score = 0, kills = 0, level = 1, no bullets, both flags false and the
\* initial formation).
C7_ResetEqualsNew ==
    [][(last' = "reset" /\ gs.game_over /\ ~panicked') =>
         /\ gs' = new(gs.width, gs.height, cfg)
         /\ gs'.score = 0 /\ gs'.kills = 0 /\ gs'.level = 1
         /\ gs'.bullets = << >> /\ ~gs'.game_over /\ ~gs'.victory
    ]_vars

\* reset has acted on a lost session
C7_Witness ==
    ~panicked /\ last = "reset" /\ wasTerminal /\ gs.level = 1 /\ gs.enemies # << >>

----------------------------------------------------------------------------
(* C8 *)

\* C8 as stated: in the 40 x 20 scenario (enemy at (20,2), player at (20,17))
\* after one shoot() the enemy is still there after each of the first 14
\* ticks, and it is the 15th tick that removes it, leaving score = 10,
\* kills = 1, level = 2 and a non-empty formation.
C8_KillOnTick15 ==
    /\ last = "new" => gs.player = Pos(20, 17) /\ gs.enemies = <<Pos(20, 2)>>
    /\ (last = "tick" /\ gs.tick_count < 15) =>
           gs.enemies = <<Pos(20, 2)>> /\ gs.score = 0 /\ gs.kills = 0 /\ gs.level = 1
    /\ (last = "tick" /\ gs.tick_count = 15) =>
           gs.score = 10 /\ gs.kills = 1 /\ gs.level = 2 /\ gs.enemies # << >>

\* C8 as amended: the bullet starts at (20,16), one row above the player, so
\* it is the 14th tick that brings it to row 2 and removes the enemy; after
\* the 14th and after the 15th tick score = 10, kills = 1, level = 2 and the
\* enemy set is a newly spawned non-empty formation.
C8_KillOnTick14 ==
    /\ last = "new" => gs.player = Pos(20, 17) /\ gs.enemies = <<Pos(20, 2)>>
    /\ last = "shoot" => gs.bullets = <<Pos(20, 16)>>
    /\ (last = "tick" /\ gs.tick_count < 14) =>
           /\ gs.bullets = <<Pos(20, 16 - gs.tick_count)>>
           /\ gs.enemies = <<Pos(20, 2)>>
           /\ gs.score = 0 /\ gs.kills = 0 /\ gs.level = 1
    /\ (last = "tick" /\ gs.tick_count = 14) =>
           /\ gs.bullets = <<Pos(20, 2)>>
           /\ gs.enemies = <<Pos(20, 2), Pos(20, 4)>>
           /\ gs.score = 10 /\ gs.kills = 1 /\ gs.level = 2
    /\ (last = "tick" /\ gs.tick_count = 15) =>
           gs.score = 10 /\ gs.kills = 1 /\ gs.level = 2 /\ gs.enemies # << >>

\* the 15th tick after the shot has run
C8_Witness ==
    ~panicked /\ last = "tick" /\ gs.tick_count = 15 /\ gs.score = 10

----------------------------------------------------------------------------
(* C9 *)

\* C9: while game_over or victory holds, a move-left, move-right or shoot key
\* and a tick deadline (tick plus the post-tick rules) change no field of the
\* session.
C9_TerminalFreeze ==
    [][(Terminal(gs) /\ last' \in {"key_left", "key_right", "key_shoot", "tick_deadline"})
         => gs' = gs]_vars

----------------------------------------------------------------------------
(* C10 *)

\* C10: the enemy-move cadence is at least 1 in every reachable state, for
\* every configuration, one with ticks-per-move 0 included.
C10_CadenceAtLeastOne ==
    ~panicked => gs.enemy_move_every_ticks >= 1

----------------------------------------------------------------------------
(* C11 *)

\* C11: no engine operation evaluates an unsigned subtraction whose result
\* would be negative, for every width >= 0 and height >= 0: the process never
\* reaches the abort that such a subtraction causes under overflow checks.
C11_NoUnderflow ==
    ~panicked

----------------------------------------------------------------------------
(* C12 *)

\* C12: in every state reachable through the event loop (keys, tick deadlines
\* with the post-tick victory rule, resize, restart) game_over and victory
\* are not both true.
C12_FlagsExclusive ==
    ~panicked => ~(gs.game_over /\ gs.victory)

\* the tick deadline, victory rule included, has run on a lost session
C12_Witness ==
    ~panicked /\ last = "tick_deadline" /\ wasTerminal /\ gs.game_over

----------------------------------------------------------------------------
(* C13 *)

\* the formation the wave-clear step of a tick on s spawns
WaveClearSpawn(s) ==
    LET up == level_up(after_collisions(s))
    IN  SpawnList(s.width, s.height, up.spawn_rows, up.spawn_cols)

\* C13: victory is turned on only by a tick deadline that leaves the enemy
\* set empty; after a tick on a non-terminal session the enemy set is empty
\* only if the formation spawned by that tick's wave-clear step has zero
\* positions; so a run in which every spawn yields an enemy never sets victory.
C13_VictoryOnlyOnEmptySpawn ==
    [][~panicked' =>
         /\ (gs'.victory /\ ~gs.victory) =>
               /\ last' = "tick_deadline"
               /\ gs'.enemies = << >>
               /\ ~gs.game_over => WaveClearSpawn(gs) = << >>
         /\ (last' = "tick_deadline" /\ ~Terminal(gs) /\ gs'.enemies = << >>) =>
               /\ WaveClearSpawn(gs) = << >>
               /\ gs'.level = gs.level + 1
    ]_vars

\* a tick deadline has just turned victory on
C13_Witness ==
    ~panicked /\ last = "tick_deadline" /\ ~wasTerminal /\ gs.victory

----------------------------------------------------------------------------
(* C14 *)

\* the cells held by the bullets of s once they have moved up and the bullets
\* arriving on row 0 have been discarded
LiveBulletCells(s) ==
    { Pos(s.bullets[j].x, s.bullets[j].y - 1) : j \in { k \in 1..Len(s.bullets) : s.bullets[k].y > 1 } }

\* the enemies of s, in order, whose cell holds no live bullet
Unmatched(s) == SelectSeq(s.enemies, LAMBDA e : e \notin LiveBulletCells(s))

\* C14: in every tick the collision pass removes exactly the enemies whose
\* cell holds a live bullet (after bullet movement and top-boundary discard):
\* every removed enemy had such a bullet and no enemy without one is removed;
\* when some enemy survives, the tick ends with exactly the survivors.
C14_RemovedHadBullet ==
    [][(last' = "tick" /\ ~Terminal(gs) /\ ~panicked') =>
         /\ after_collisions(gs).enemies = Unmatched(gs)
         /\ Unmatched(gs) # << >> => Len(gs'.enemies) = Len(Unmatched(gs))
         /\ gs'.kills > gs.kills => Unmatched(gs) # gs.enemies
    ]_vars

\* a tick on a live session has just removed an enemy
C14_Witness ==
    ~panicked /\ last = "tick" /\ ~wasTerminal /\ gs.kills > 0 /\ gs.tick_count = 2

----------------------------------------------------------------------------
(* C15 *)

\* C15: in a tick whose enemy set is empty after collision resolution the
\* level grows by exactly 1; an even new level grows spawn_rows by 1 up to 6
\* and leaves spawn_cols, an odd one grows spawn_cols by 1 up to 12 and
\* leaves spawn_rows; the cadence becomes max(cadence-1, 1); and the enemy set
\* is replaced by a fresh spawn. In a tick whose enemy set is not empty after
\* collision resolution level, spawn_rows and spawn_cols are unchanged.
\* Between resets neither spawn_rows nor spawn_cols decreases.
C15_LevelUp ==
    [][~panicked' =>
         /\ (last' = "tick" /\ ~Terminal(gs)) =>
               IF Unmatched(gs) = << >>
               THEN /\ gs'.level = gs.level + 1
                    /\ IF gs'.level % 2 = 0
                       THEN /\ gs'.spawn_rows = (IF gs.spawn_rows + 1 <= 6 THEN gs.spawn_rows + 1 ELSE 6)
                            /\ gs'.spawn_cols = gs.spawn_cols
                       ELSE /\ gs'.spawn_cols = (IF gs.spawn_cols + 1 <= 12 THEN gs.spawn_cols + 1 ELSE 12)
                            /\ gs'.spawn_rows = gs.spawn_rows
                    /\ gs'.enemy_move_every_ticks =
                          (IF gs.enemy_move_every_ticks - 1 >= 1 THEN gs.enemy_move_every_ticks - 1 ELSE 1)
                    /\ before_move(gs).enemies =
                          SpawnList(gs.width, gs.height, gs'.spawn_rows, gs'.spawn_cols)
                    /\ Len(gs'.enemies) = Len(before_move(gs).enemies)
               ELSE /\ gs'.level = gs.level
                    /\ gs'.spawn_rows = gs.spawn_rows
                    /\ gs'.spawn_cols = gs.spawn_cols
         /\ last' # "reset" =>
               /\ gs'.spawn_rows >= gs.spawn_rows
               /\ gs'.spawn_cols >= gs.spawn_cols
    ]_vars

\* a tick has cleared the wave and respawned a formation that is not empty
C15_Witness ==
    /\ ~panicked /\ last = "tick" /\ ~wasTerminal
    /\ gs.level = 2 /\ gs.kills > 0 /\ gs.enemies # << >>

----------------------------------------------------------------------------
(* C16 *)

\* every enemy of `to` is the enemy of `from` at the same index moved by (dx, dy)
Displaced(from, to, dx, dy) ==
    /\ Len(to) = Len(from)
    /\ \A i \in 1..Len(from) : to[i].x = from[i].x + dx /\ to[i].y = from[i].y + dy

\* C16: the formation moves as one rigid body: in each tick every enemy that
\* survived the collision pass has the same displacement, which is (0,0) with
\* the direction unchanged, (direction,0) with the direction unchanged, or
\* (0,+1) with the direction sign flipped; no step changes both row and
\* column, and the direction is always +1 or -1.
C16_RigidFormation ==
    [][~panicked' =>
         /\ gs'.enemy_direction \in {1, -1}
         /\ (last' = "tick" /\ ~Terminal(gs)) =>
               LET mid == before_move(gs).enemies
                   d   == gs.enemy_direction
               IN  /\ Unmatched(gs) # << >> => mid = Unmatched(gs)
                   /\ \/ Displaced(mid, gs'.enemies, 0, 0) /\ gs'.enemy_direction = d
                      \/ Displaced(mid, gs'.enemies, d, 0) /\ gs'.enemy_direction = d
                      \/ Displaced(mid, gs'.enemies, 0, 1) /\ gs'.enemy_direction = -d
    ]_vars

\* a tick has moved a formation that had already descended and turned left
C16_Witness ==
    /\ ~panicked /\ last = "tick" /\ ~wasTerminal
    /\ gs.enemy_direction = -1
    /\ \E e \in Range(gs.enemies) : e.x < SpawnX(gs.width, gs.spawn_cols, 0) /\ e.y > 2

----------------------------------------------------------------------------
(* C17 *)

\* the bullets of s that are below row 1, in order, each one row higher
SurvivingBullets(s) ==
    LET below == SelectSeq(s.bullets, LAMBDA b : b.y > 1)
    IN  [i \in 1..Len(below) |-> Pos(below[i].x, below[i].y - 1)]

\* C17: a bullet leaves the sequence in a tick exactly when its row after the
\* upward move of that tick is 0, so after every tick on a live session all
\* bullets have row >= 1; the surviving bullets keep their relative order; and
\* a bullet that matched an enemy is still in the sequence, at the matched
\* cell, after the tick.
C17_BulletsLeaveAtTopOnly ==
    [][(last' = "tick" /\ ~Terminal(gs) /\ ~panicked') =>
         /\ gs'.bullets = SurvivingBullets(gs)
         /\ \A j \in 1..Len(gs'.bullets) : gs'.bullets[j].y >= 1
         /\ \A e \in Range(gs.enemies) :
               e \in LiveBulletCells(gs) => e \in Range(gs'.bullets)
    ]_vars

\* the second tick has removed an enemy on row 2 and the bullet is still there
C17_Witness ==
    /\ ~panicked /\ last = "tick" /\ ~wasTerminal
    /\ gs.kills > 0 /\ gs.tick_count = 2
    /\ \E b \in Range(gs.bullets) : b.y = 2

----------------------------------------------------------------------------
(* C18 *)

\* bullet j and enemy i of s are in one column
SameColumn(s, j, i) == s.bullets[j].x = s.enemies[i].x

\* two ticks from s in which no bullet is discarded, no enemy is removed and no
\* wave is cleared: bullet j and enemy i of s are still bullet j and enemy i
SameObjects(s, t) ==
    /\ Len(t.bullets) = Len(s.bullets)
    /\ Len(t.enemies) = Len(s.enemies)
    /\ t.kills = s.kills
    /\ t.level = s.level

\* C18: a bullet never passes through a live enemy: no sequence of ticks takes
\* a bullet from a row strictly below an enemy of its column to a row strictly
\* above it while both exist and share the column throughout (the formation
\* may descend in the same tick as the bullet moves up).
C18_NoPassThrough ==
    (~panicked /\ ~Terminal(gs)) =>
       LET s1 == tick(gs)
           s2 == tick(s1)
       IN  (SameObjects(gs, s1) /\ SameObjects(gs, s2)) =>
              \A j \in 1..Len(gs.bullets) : \A i \in 1..Len(gs.enemies) :
                 (/\ SameColumn(gs, j, i) /\ SameColumn(s1, j, i) /\ SameColumn(s2, j, i)
                  /\ gs.bullets[j].y > gs.enemies[i].y)
                 => s2.bullets[j].y >= s2.enemies[i].y

----------------------------------------------------------------------------
(* C19 *)

\* C19: in a session with a non-empty initial formation, cadence >= 1 and no
\* resize, in which tick() keeps being invoked and the player never shoots,
\* game_over eventually holds.
C19_EventuallyGameOver == <>(gs.game_over)

\* a tick has ended the session after the formation walked down the screen
C19_Witness ==
    /\ ~panicked /\ last = "tick" /\ ~wasTerminal /\ gs.game_over
    /\ gs.kills = 0 /\ gs.tick_count >= 4
    /\ \A e \in Range(gs.enemies) : e.y > SpawnY(0)

----------------------------------------------------------------------------
(* C20 *)

\* C20: immediately after spawn_enemies(), called from new() or reset(), every
\* spawned enemy lies in columns [2, width-1) and rows [2, height-2) and
\* strictly above the player's row, for every height and every formation row
\* count up to 6; a spawn alone never satisfies the loss condition.
C20_SpawnAbovePlayer ==
    (~panicked /\ last \in {"new", "reset"}) =>
       \A e \in Range(gs.enemies) :
          /\ 2 <= e.x /\ e.x < gs.width - 1
          /\ 2 <= e.y /\ e.y < gs.height - 2
          /\ e.y < gs.player.y

====
